---- MODULE Spec2Model ----
(***************************************************************************)
(* Plan execution engine of the multi-agent chatbot: the LangGraph         *)
(* workflow intent -> planner -> executor -> synthesis, the shared         *)
(* AgentState, the dependency-gated executor pass, the step handlers and   *)
(* the data-retrieval validation gate.                                     *)
(*                                                                         *)
(* Python values are represented as follows.  A str that the code scans    *)
(* (an SQL query) is a tuple of one-character strings; a str that the code *)
(* only builds and stores (messages) is a TLA+ string, concatenated with   *)
(* \o.  Optional[T] is <<>> for None and <<v>> for a value v, so that an   *)
(* empty string that is present differs from None.  Truthiness is the      *)
(* Python rule: None, "" and [] are false.                                 *)
(***************************************************************************)
EXTENDS Integers, Sequences, FiniteSets, TLC

(***************************************************************************)
(* Bounds of the model.                                                    *)
(***************************************************************************)
\* Longest execution plan the planner's completion service returns.
MaxSteps == 2

(***************************************************************************)
(* Strings.                                                                *)
(***************************************************************************)
UpperChars == <<"A", "B", "C", "D", "E", "F", "G", "H", "I", "J", "K", "L", "M", "N", "O", "P", "Q", "R", "S", "T", "U", "V", "W", "X", "Y", "Z">>
LowerChars == <<"a", "b", "c", "d", "e", "f", "g", "h", "i", "j", "k", "l", "m", "n", "o", "p", "q", "r", "s", "t", "u", "v", "w", "x", "y", "z">>

\* str.lower() on one character (ASCII letters; every other character is kept).
LowerOfUpper == [c \in {UpperChars[i] : i \in 1..Len(UpperChars)} |->
                  LowerChars[CHOOSE i \in 1..Len(UpperChars) : UpperChars[i] = c]]
ToLowerChar(c) == IF c \in DOMAIN LowerOfUpper THEN LowerOfUpper[c] ELSE c

\* str.upper() on one character
UpperOfLower == [c \in {LowerChars[i] : i \in 1..Len(LowerChars)} |->
                  UpperChars[CHOOSE i \in 1..Len(LowerChars) : LowerChars[i] = c]]
ToUpperChar(c) == IF c \in DOMAIN UpperOfLower THEN UpperOfLower[c] ELSE c

\* str.upper()
upper(s) == [i \in 1..Len(s) |-> ToUpperChar(s[i])]

\* a comparison that keeps the case of the query
lower_keeps_case(s) == s

\* str.lower()
lower(s) == [i \in 1..Len(s) |-> ToLowerChar(s[i])]

\* Python's `sub in s` on strings: sub occurs as a contiguous substring.
Contains(s, sub) ==
  \E i \in 0..(Len(s) - Len(sub)) : SubSeq(s, i + 1, i + Len(sub)) = sub

\* The text of a scanned string, for use inside a message (f-string).
RECURSIVE Text(_)
Text(s) == IF s = <<>> THEN "" ELSE s[1] \o Text(Tail(s))

\* Optional[T]
None == <<>>
Some(v) == <<v>>
\* bool(x) for an Optional[str] held as None / Some(string)
Truthy(opt) == opt # None /\ opt[1] # ""

(***************************************************************************)
(* Query strings.                                                          *)
(***************************************************************************)
\* queries the planner's completion service may put in a data-retrieval step
QueryValid == <<"S", "E", "L", "E", "C", "T", " ", "*", " ", "F", "R", "O", "M", " ", "s", "p", "5", "0", "0", "_", "c", "o", "m", "p", "a", "n", "i", "e", "s">>
QueryWrongTable == <<"S", "E", "L", "E", "C", "T", " ", "*", " ", "F", "R", "O", "M", " ", "c", "o", "m", "p", "a", "n", "i", "e", "s">>
QueryEmbedded == <<"S", "E", "L", "E", "C", "T", " ", "L", "a", "s", "t", "_", "U", "p", "d", "a", "t", "e", "d", " ", "F", "R", "O", "M", " ", "s", "p", "5", "0", "0", "_", "c", "o", "m", "p", "a", "n", "i", "e", "s">>
PlanQueries == {QueryValid, QueryWrongTable, QueryEmbedded}

\* A wider family of query strings for the gate alone: a denylisted word in
\* lower, upper or mixed case, or a harmless fragment, placed after any of the
\* prefixes and before any of the suffixes.
DenylistedSpellings ==
  { <<"d", "r", "o", "p">>,
    <<"D", "R", "O", "P">>,
    <<"D", "r", "o", "p">>,
    <<"d", "e", "l", "e", "t", "e">>,
    <<"D", "E", "L", "E", "T", "E">>,
    <<"D", "e", "l", "e", "t", "e">>,
    <<"t", "r", "u", "n", "c", "a", "t", "e">>,
    <<"T", "R", "U", "N", "C", "A", "T", "E">>,
    <<"T", "r", "u", "n", "c", "a", "t", "e">>,
    <<"i", "n", "s", "e", "r", "t">>,
    <<"I", "N", "S", "E", "R", "T">>,
    <<"I", "n", "s", "e", "r", "t">>,
    <<"u", "p", "d", "a", "t", "e">>,
    <<"U", "P", "D", "A", "T", "E">>,
    <<"U", "p", "d", "a", "t", "e">>,
    <<"a", "l", "t", "e", "r">>,
    <<"A", "L", "T", "E", "R">>,
    <<"A", "l", "t", "e", "r">> }
HarmlessFragments == { <<"d", "r", "o">>, <<"u", "p", "d", " ", "a", "t", "e">>, <<"n", "a", "m", "e">> }
GatePrefixes == { <<>>, <<"S", "E", "L", "E", "C", "T", " ", "l", "a", "s", "t", "_">>, <<"s", "e", "l", "e", "c", "t", " ", "*", " ", "f", "r", "o", "m", " ", "S", "P", "5", "0", "0", "_", "C", "o", "m", "p", "a", "n", "i", "e", "s", " ", "w", "h", "e", "r", "e", " ">> }
GateSuffixes == { <<"x">>, <<"d", "_", "a", "t", " ", "F", "R", "O", "M", " ", "s", "p", "5", "0", "0", "_", "c", "o", "m", "p", "a", "n", "i", "e", "s">>, <<" ", "f", "r", "o", "m", " ", "C", "o", "m", "p", "a", "n", "i", "e", "s">> }
GateDenylisted ==
  {p \o m \o x : p \in GatePrefixes, m \in DenylistedSpellings, x \in GateSuffixes}
GateHarmless ==
  {p \o m \o x : p \in GatePrefixes, m \in HarmlessFragments, x \in GateSuffixes}
GateQueries == GateDenylisted \cup GateHarmless

QueryUniverse == PlanQueries \cup GateQueries

(***************************************************************************)
(* The validation gate: DataRetrievalAgent._validate_query.                *)
(***************************************************************************)
\* dangerous_keywords, in the order the code scans them
dangerous_keywords ==
  << <<"d", "r", "o", "p">>,
     <<"d", "e", "l", "e", "t", "e">>,
     <<"t", "r", "u", "n", "c", "a", "t", "e">>,
     <<"i", "n", "s", "e", "r", "t">>,
     <<"u", "p", "d", "a", "t", "e">>,
     <<"a", "l", "t", "e", "r">> >>

\* the single known table
TableName == <<"s", "p", "5", "0", "0", "_", "c", "o", "m", "p", "a", "n", "i", "e", "s">>

\* the loop `for keyword in dangerous_keywords: if keyword in sql_lower`:
\* the position of the first keyword (list order) found in sql_lower, or 0
RECURSIVE FirstDangerousFrom(_, _)
FirstDangerousFrom(sql_lower, k) ==
  IF k > Len(dangerous_keywords) THEN 0
  ELSE IF Contains(sql_lower, dangerous_keywords[k]) THEN k
  ELSE FirstDangerousFrom(sql_lower, k + 1)

FirstDangerous(sql_lower) == FirstDangerousFrom(sql_lower, 1)

\* a dry run whose failure is ignored
db_validate_query_ignores_failure(query, explain) == <<TRUE, None>>

\* DatabaseManager.validate_query: EXPLAIN <query>; the backend's answer is the
\* input `explain` = [ok |-> BOOLEAN, msg |-> str(e)].  Returns (is_valid, error).
db_validate_query(query, explain) ==
  IF explain.ok THEN <<TRUE, None>> ELSE <<FALSE, Some(explain.msg)>>

\* `keyword in sql_lower` for the keywords in turn, and
\* `'sp500_companies' not in sql_lower`, tabulated over the query strings of
\* the model
KeywordFound == [q \in QueryUniverse |-> FirstDangerous(lower(q))]
TableFound == [q \in QueryUniverse |-> Contains(lower(q), TableName)]

\* Whether _validate_query reaches the backend's dry run for this query.
ReachesExplain(sql_query) ==
  /\ KeywordFound[sql_query] = 0
  /\ TableFound[sql_query]

\* a gate that looks for the table before it looks for the keywords
validate_query_table_rule_first(sql_query, explain) ==
  IF ~TableFound[sql_query]
  THEN <<FALSE, "Query must reference sp500_companies table">>
  ELSE IF KeywordFound[sql_query] # 0
  THEN <<FALSE, "Dangerous operation not allowed: "
                  \o Text(dangerous_keywords[KeywordFound[sql_query]])>>
  ELSE IF ~db_validate_query(sql_query, explain)[1]
  THEN <<FALSE, db_validate_query(sql_query, explain)[2][1]>>
  ELSE <<TRUE, "">>

\* _validate_query(sql_query) -> (is_valid, error_message)
validate_query(sql_query, explain) ==
  IF KeywordFound[sql_query] # 0
  THEN <<FALSE, "Dangerous operation not allowed: "
                  \o Text(dangerous_keywords[KeywordFound[sql_query]])>>
  ELSE IF ~TableFound[sql_query]
  THEN <<FALSE, "Query must reference sp500_companies table">>
  ELSE IF ~db_validate_query(sql_query, explain)[1]
  THEN <<FALSE, db_validate_query(sql_query, explain)[2][1]>>
  ELSE <<TRUE, "">>

(***************************************************************************)
(* AgentState, ExecutionStep and the inputs of one invocation.             *)
(***************************************************************************)
\* str(e) of an exception raised by a collaborator (backend, pandas, plotly,
\* completion service).  str(e) is empty for an exception built without a
\* message, e.g. MemoryError() or a bare failed assert.
ExcMsgs == {"", "boom"}

\* Optional[Any] payloads of step["result"] as the planner stores them
PyStr(chars) == [type |-> "str", chars |-> chars, keys |-> {}]
PyInt == [type |-> "int", chars |-> <<>>, keys |-> {}]
PyDict(keys) == [type |-> "dict", chars |-> <<>>, keys |-> keys]

\* row_count of a result set
RowCounts == {0, 2}

\* the description the planner's reply gives an analysis step
AnalysisDescription == <<"R", "a", "n", "k", " ", "t", "h", "e", " ", "c", "o", "m", "p", "a", "n", "i", "e", "s">>

\* AnalysisAgent._determine_analysis_type: the first list with a word that
\* occurs in description.lower()
determine_analysis_type(description) ==
  LET desc_lower == lower(description)
      any(ws) == \E word \in ws : Contains(desc_lower, word)
  IN  IF any({<<"a", "v", "e", "r", "a", "g", "e">>, <<"m", "e", "a", "n">>, <<"m", "e", "d", "i", "a", "n">>, <<"s", "u", "m">>, <<"t", "o", "t", "a", "l">>})
      THEN "statistics"
      ELSE IF any({<<"c", "o", "m", "p", "a", "r", "e">>, <<"c", "o", "m", "p", "a", "r", "i", "s", "o", "n">>, <<"v", "e", "r", "s", "u", "s">>, <<"v", "s">>})
      THEN "comparison"
      ELSE IF any({<<"c", "o", "r", "r", "e", "l", "a", "t", "i", "o", "n">>, <<"r", "e", "l", "a", "t", "i", "o", "n", "s", "h", "i", "p">>})
      THEN "correlation"
      ELSE IF any({<<"r", "a", "n", "k">>, <<"t", "o", "p">>, <<"b", "o", "t", "t", "o", "m">>, <<"h", "i", "g", "h", "e", "s", "t">>, <<"l", "o", "w", "e", "s", "t">>})
      THEN "ranking"
      ELSE "general"

\* _determine_analysis_type, tabulated over the descriptions of the model
AnalysisTypeOf ==
  [d \in {Text(AnalysisDescription)} |-> determine_analysis_type(AnalysisDescription)]

\* AgentType: the member names and their values
AgentTypeNames ==
  {<<"I", "N", "T", "E", "N", "T">>, <<"P", "L", "A", "N", "N", "E", "R">>,
   <<"D", "A", "T", "A", "_", "R", "E", "T", "R", "I", "E", "V", "A", "L">>, <<"A", "N", "A", "L", "Y", "S", "I", "S">>,
   <<"V", "I", "S", "U", "A", "L", "I", "Z", "A", "T", "I", "O", "N">>, <<"S", "Y", "N", "T", "H", "E", "S", "I", "S">>}
AgentTypeValue(name) == Text(lower(name))

\* _parse_plan_response: AgentType[agent_type_str.upper()], DATA_RETRIEVAL on
\* KeyError
parse_agent_type(agent_type_str) ==
  IF upper(agent_type_str) \in AgentTypeNames
  THEN AgentTypeValue(upper(agent_type_str))
  ELSE "data_retrieval"

\* the step records of the completion service's JSON: agent_type text,
\* description and sql_query
RawStepKinds ==
  {[agent_type |-> t, description |-> "Query the table", sql_query |-> r] :
      t \in {<<"d", "a", "t", "a", "_", "r", "e", "t", "r", "i", "e", "v", "a", "l">>, <<"s", "q", "l", "_", "l", "o", "o", "k", "u", "p">>},
      r \in {None, Some(PyInt)} \cup {Some(PyStr(q)) : q \in PlanQueries}}
  \cup {[agent_type |-> <<"a", "n", "a", "l", "y", "s", "i", "s">>, description |-> Text(AnalysisDescription),
         sql_query |-> None],
        [agent_type |-> <<"V", "i", "s", "u", "a", "l", "i", "z", "a", "t", "i", "o", "n">>, description |-> "Create chart",
         sql_query |-> None],
        [agent_type |-> <<"S", "Y", "N", "T", "H", "E", "S", "I", "S">>, description |-> "Present the answer",
         sql_query |-> None]}

\* what the parsed plan can hold for one step: (agent_type, description, result)
StepKinds ==
  {[agent_type |-> parse_agent_type(raw.agent_type),
    description |-> raw.description, result |-> raw.sql_query] : raw \in RawStepKinds}

\* PlannerAgent._parse_plan_response: one ExecutionStep per step record of the
\* completion service's JSON; completed = False and error = None.
ParsedStep(id, kind, deps) ==
  [step_id |-> id, agent_type |-> kind.agent_type, description |-> kind.description,
   dependencies |-> deps, completed |-> FALSE, result |-> kind.result, error |-> None]

\* the plans the completion service may return: n <= MaxSteps steps numbered
\* 1..n in order, each naming any set of step ids in 1..MaxSteps as its
\* dependencies (an id beyond n names no step of the plan)
PlanShapes(n) == [1..n -> StepKinds \X SUBSET (1..MaxSteps)]
PlanOf(n, kd) == [i \in 1..n |-> ParsedStep(i, kd[i][1], kd[i][2])]

\* PlannerAgent._create_clarification_plan
create_clarification_plan(ambiguities) ==
  << [step_id |-> 1, agent_type |-> "synthesis",
      description |-> "Request clarification", dependencies |-> {},
      completed |-> FALSE, result |-> None, error |-> None] >>

\* PlannerAgent._create_fallback_plan
create_fallback_plan ==
  << [step_id |-> 1, agent_type |-> "synthesis",
      description |-> "Provide basic response", dependencies |-> {},
      completed |-> FALSE, result |-> None, error |-> None] >>

\* create_initial_state(user_query)
create_initial_state ==
  [conversation_history |-> <<>>,
   detected_intent |-> None, ambiguities |-> <<>>, execution_plan |-> <<>>,
   sql_queries |-> <<>>, query_results |-> <<>>, computed_metrics |-> {},
   insights |-> <<>>, chart_config |-> None, final_response |-> "",
   response_metadata |-> None, errors |-> <<>>]

\* operator.add on lists, the reducer of the Annotated fields of AgentState
operator_add(a, b) == a \o b

\* A graph node returns the whole state.  The lists it appended to in place are
\* the channel's own list objects, so the channel value already shows the
\* appends when the reducer adds the returned list to it; the other fields are
\* overwritten by the returned value.
node_return(returned) ==
  [returned EXCEPT !.conversation_history =
                       operator_add(returned.conversation_history, @),
                   !.sql_queries = operator_add(returned.sql_queries, @),
                   !.query_results = operator_add(returned.query_results, @),
                   !.insights = operator_add(returned.insights, @),
                   !.errors = operator_add(returned.errors, @)]

(***************************************************************************)
(* Step handlers.  Each takes the state, the step and the collaborator's   *)
(* answer, and returns the state and the step as the handler leaves them,  *)
(* the exception it lets escape (None when it returns), and the calls it   *)
(* made to the validation gate and to the backend.                         *)
(***************************************************************************)
HandlerResult(state, step, raised, validated, explained, executed) ==
  [state |-> state, step |-> step, raised |-> raised, validated |-> validated,
   explained |-> explained, executed |-> executed]

\* answers of the backend: explain(query) and execute(query)
ExplainAnswers ==
  {[ok |-> TRUE, msg |-> ""]} \cup {[ok |-> FALSE, msg |-> m] : m \in ExcMsgs}
ExecuteAnswers ==
  {[ok |-> TRUE, msg |-> "", rows |-> n] : n \in RowCounts}
  \cup {[ok |-> FALSE, msg |-> m, rows |-> 0] : m \in ExcMsgs}
BackendAnswers == [explain : ExplainAnswers, execute : ExecuteAnswers]

\* DataRetrievalAgent.execute_retrieval_step
execute_retrieval_step(state, step, be) ==
  LET sql_query == step.result
  IN
  IF sql_query = None \/ (sql_query[1].type = "str" /\ sql_query[1].chars = <<>>)
  THEN HandlerResult(
         [state EXCEPT !.errors = Append(@, "Data retrieval failed: No SQL query")],
         [step EXCEPT !.error = Some("No SQL query specified"), !.completed = TRUE],
         None, <<>>, <<>>, <<>>)
  ELSE IF sql_query[1].type # "str"
  THEN \* sql_query.lower() in _validate_query, outside the handler's try
       HandlerResult(state, step,
         Some("'" \o sql_query[1].type \o "' object has no attribute 'lower'"),
         <<>>, <<>>, <<>>)
  ELSE
  LET q == sql_query[1].chars
      v == validate_query(q, be.explain)
      validated == << [query |-> q, is_valid |-> v[1], error |-> v[2]] >>
      explained == IF ReachesExplain(q)
                   THEN << [query |-> q, ok |-> be.explain.ok] >> ELSE <<>>
      result_dict == [step_id |-> step.step_id, sql_query |-> q,
                      row_count |-> be.execute.rows]
  IN
  IF ~v[1]
  THEN HandlerResult(
         [state EXCEPT !.errors = Append(@, "Query validation failed: " \o v[2])],
         [step EXCEPT !.error = Some("Invalid query: " \o v[2]), !.completed = TRUE],
         None, validated, explained, <<>>)
  ELSE IF be.execute.ok
  THEN HandlerResult(
         [state EXCEPT !.sql_queries = Append(@, q),
                       !.query_results = Append(@, result_dict)],
         [step EXCEPT !.result = Some(result_dict), !.completed = TRUE],
         None, validated, explained, <<q>>)
  ELSE HandlerResult(
         [state EXCEPT !.errors = Append(@, "Query execution error: " \o be.execute.msg)],
         [step EXCEPT !.error = Some(be.execute.msg), !.completed = TRUE],
         None, validated, explained, <<q>>)

\* the keys of the dict the analysis of each type can return: _compute_statistics
\* and _perform_comparison one key per numeric column (none without such a
\* column), _compute_correlation and _perform_ranking the key "error" when the
\* data has too few numeric columns
AnalysisResultKeys(analysis_type) ==
  CASE analysis_type = "statistics" -> {{}, {"market_cap"}}
    [] analysis_type = "comparison" -> {{}, {"market_cap"}}
    [] analysis_type = "correlation" -> {{"error"}, {"correlations"}}
    [] analysis_type = "ranking" -> {{"error"}, {"ranked_data", "rank_column"}}
    [] analysis_type = "general" ->
         {{"row_count", "column_count", "numeric_columns", "categorical_columns"}}

\* outcome of the analysis computation on the latest result set: the dict it
\* returns, or the exception it raises
AnalysisAnswers(analysis_type) ==
  {[ok |-> TRUE, msg |-> "", keys |-> k] : k \in AnalysisResultKeys(analysis_type)}
  \cup {[ok |-> FALSE, msg |-> m, keys |-> {}] : m \in ExcMsgs}

\* AnalysisAgent.execute_analysis_step
execute_analysis_step(state, step, an) ==
  IF state.query_results = <<>>
  THEN HandlerResult(state,
         [step EXCEPT !.error = Some("No data available for analysis"),
                      !.completed = TRUE],
         None, <<>>, <<>>, <<>>)
  ELSE IF an.ok
  THEN HandlerResult(
         [state EXCEPT !.computed_metrics = @ \cup an.keys],
         [step EXCEPT !.result = Some(PyDict(an.keys)), !.completed = TRUE],
         None, <<>>, <<>>, <<>>)
  ELSE HandlerResult(
         [state EXCEPT !.errors = Append(@, "Analysis error: " \o an.msg)],
         [step EXCEPT !.error = Some(an.msg), !.completed = TRUE],
         None, <<>>, <<>>, <<>>)

\* outcome of the chart construction: a figure, no figure, or an exception
ChartAnswers ==
  {[ok |-> TRUE, msg |-> "", fig |-> f] : f \in BOOLEAN}
  \cup {[ok |-> FALSE, msg |-> m, fig |-> FALSE] : m \in ExcMsgs}

\* VisualizationAgent.execute_visualization_step
execute_visualization_step(state, step, vz) ==
  IF state.query_results = <<>>
  THEN HandlerResult(state,
         [step EXCEPT !.error = Some("No data available for visualization"),
                      !.completed = TRUE],
         None, <<>>, <<>>, <<>>)
  ELSE IF vz.ok /\ vz.fig
  THEN HandlerResult(
         [state EXCEPT !.chart_config = Some(PyDict({"type", "data", "html"}))],
         [step EXCEPT !.result = Some(PyDict({"type", "data", "html"})),
                      !.completed = TRUE],
         None, <<>>, <<>>, <<>>)
  ELSE IF vz.ok
  THEN HandlerResult(state, [step EXCEPT !.completed = TRUE], None, <<>>, <<>>, <<>>)
  ELSE HandlerResult(
         [state EXCEPT !.errors = Append(@, "Visualization error: " \o vz.msg)],
         [step EXCEPT !.error = Some(vz.msg), !.completed = TRUE],
         None, <<>>, <<>>, <<>>)

\* a check that asks only whether a dependency has failed
dependencies_met_ignores_unfinished(plan, dependency_ids) ==
  IF dependency_ids = {} THEN TRUE
  ELSE \A j \in 1..Len(plan) :
         plan[j].step_id \in dependency_ids => ~Truthy(plan[j].error)

(***************************************************************************)
(* The orchestrator.                                                       *)
(***************************************************************************)
\* MultiAgentOrchestrator._dependencies_met
dependencies_met(plan, dependency_ids) ==
  IF dependency_ids = {} THEN TRUE
  ELSE \A j \in 1..Len(plan) :
         plan[j].step_id \in dependency_ids
           => ~(~plan[j].completed \/ Truthy(plan[j].error))

\* an except branch that replaces the error list by the new entry
catch_step_exception_overwrites(r) ==
  IF r.raised = None THEN r
  ELSE [r EXCEPT !.step = [@ EXCEPT !.error = Some(r.raised[1]), !.completed = TRUE],
                 !.state = [@ EXCEPT !.errors =
                     << "Step " \o ToString(r.step.step_id)
                          \o " error: " \o r.raised[1] >>]]

\* an except branch that records the error and leaves completed unset
catch_step_exception_leaves_running(r) ==
  IF r.raised = None THEN r
  ELSE [r EXCEPT !.step = [@ EXCEPT !.error = Some(r.raised[1])],
                 !.state = [@ EXCEPT !.errors =
                     Append(@, "Step " \o ToString(r.step.step_id)
                                 \o " error: " \o r.raised[1])]]

\* the try/except around the handler call in _executor_node: an exception that
\* escapes the handler is recorded on the step and in errors
catch_step_exception(r) ==
  IF r.raised = None THEN r
  ELSE [r EXCEPT !.step = [@ EXCEPT !.error = Some(r.raised[1]), !.completed = TRUE],
                 !.state = [@ EXCEPT !.errors =
                     Append(@, "Step " \o ToString(r.step.step_id)
                                 \o " error: " \o r.raised[1])]]

\* a workflow whose executor node leads straight to END
NextNode_skips_synthesis(node) ==
  CASE node = "intent" -> "planner"
    [] node = "planner" -> "executor"
    [] node = "executor" -> "END"
    [] node = "synthesis" -> "END"

\* a workflow with an edge from the executor back to the planner
NextNode_replans(node) ==
  CASE node = "intent" -> "planner"
    [] node = "planner" -> "executor"
    [] node = "executor" -> "planner"
    [] node = "synthesis" -> "END"

\* the edges of the compiled workflow (_build_workflow)
NextNode(node) ==
  CASE node = "intent" -> "planner"
    [] node = "planner" -> "executor"
    [] node = "executor" -> "synthesis"
    [] node = "synthesis" -> "END"

(***************************************************************************)
(* Intent, planner and synthesis agents.                                   *)
(***************************************************************************)
\* QueryIntent: the values of the enumeration
QueryIntentValues ==
  {"lookup", "comparison", "aggregation", "ranking", "trend", "correlation",
   "filter", "visualization", "unclear"}

\* _parse_intent_response: QueryIntent(intent_str), UNCLEAR on ValueError
query_intent(intent_str) ==
  IF intent_str \in QueryIntentValues THEN intent_str ELSE "unclear"

\* what the completion service gives the intent agent: a JSON object (whose
\* intent may be no member of the enumeration, and whose ambiguities may be a
\* list or a string, held as the sequence of its characters), JSON that is no
\* object, text that is not JSON, or a failure of the call
IntentAnswers ==
  {[kind |-> "ok", intent |-> i, ambiguities |-> a, amb_is_list |-> TRUE, msg |-> ""] :
      i \in {"lookup", "unclear", "forecast"},
      a \in {<<>>, <<"which year?">>, <<"which year?", "which company?">>}}
  \cup {[kind |-> "ok", intent |-> "lookup", ambiguities |-> <<"2", "0", "2", "3", "?">>,
          amb_is_list |-> FALSE, msg |-> ""]}
  \cup {[kind |-> "not_object", intent |-> "unclear", ambiguities |-> <<>>,
          amb_is_list |-> TRUE, msg |-> "'list' object has no attribute 'get'"]}
  \cup {[kind |-> "bad_json", intent |-> "unclear", ambiguities |-> <<>>,
          amb_is_list |-> TRUE, msg |-> ""]}
  \cup {[kind |-> "error", intent |-> "unclear", ambiguities |-> <<>>,
          amb_is_list |-> TRUE, msg |-> m] : m \in ExcMsgs}

\* IntentAgent.analyze_intent (with _parse_intent_response)
analyze_intent(state, ans) ==
  CASE ans.kind = "ok" ->
         [state EXCEPT !.detected_intent = Some(query_intent(ans.intent)),
                       !.ambiguities = ans.ambiguities]
    [] ans.kind = "bad_json" ->
         [state EXCEPT !.detected_intent = Some("unclear"),
                       !.ambiguities = <<"Failed to understand query">>]
    [] ans.kind \in {"error", "not_object"} ->
         [state EXCEPT !.errors = Append(@, "Intent analysis error: " \o ans.msg),
                       !.detected_intent = Some("unclear")]

\* what the completion service gives the planner: a plan, text that is not
\* JSON, or a failure of the call
PlannerFailures ==
  {[kind |-> "bad_json", plan |-> <<>>, msg |-> ""]}
  \cup {[kind |-> "error", plan |-> <<>>, msg |-> m] : m \in ExcMsgs}
  \cup {[kind |-> "not_list", plan |-> <<>>,
          msg |-> "'str' object has no attribute 'get'"]}
  \cup {[kind |-> "empty_object", plan |-> <<>>, msg |-> ""]}
PlannerPlan(p) == [kind |-> "ok", plan |-> p, msg |-> ""]

\* a planner that asks for a plan whatever the intent agent found
create_plan_ignores_ambiguities(state, ans) ==
  CASE ans.kind = "ok" -> [state EXCEPT !.execution_plan = ans.plan]
    [] ans.kind = "empty_object" -> [state EXCEPT !.execution_plan = <<>>]
    [] ans.kind = "bad_json" ->
         [state EXCEPT !.execution_plan = create_fallback_plan]
    [] ans.kind \in {"error", "not_list"} ->
         [state EXCEPT !.errors = Append(@, "Planning error: " \o ans.msg),
                       !.execution_plan = create_fallback_plan]

\* PlannerAgent.create_plan (with _parse_plan_response)
create_plan(state, ans) ==
  IF state.detected_intent = Some("unclear") \/ state.ambiguities # <<>>
  THEN [state EXCEPT !.execution_plan = create_clarification_plan(state.ambiguities)]
  ELSE CASE ans.kind = "ok" -> [state EXCEPT !.execution_plan = ans.plan]
         [] ans.kind = "empty_object" -> [state EXCEPT !.execution_plan = <<>>]
         [] ans.kind = "bad_json" ->
              [state EXCEPT !.execution_plan = create_fallback_plan]
         [] ans.kind \in {"error", "not_list"} ->
              [state EXCEPT !.errors = Append(@, "Planning error: " \o ans.msg),
                            !.execution_plan = create_fallback_plan]

\* whether create_plan asks the completion service for a plan
planner_calls_llm(state) ==
  ~(state.detected_intent = Some("unclear") \/ state.ambiguities # <<>>)

\* SynthesisAgent._generate_clarification_request
RECURSIVE ClarificationLines(_, _)
ClarificationLines(ambiguities, i) ==
  IF i > Len(ambiguities) THEN ""
  ELSE ToString(i) \o ". " \o ambiguities[i] \o "\n"
         \o ClarificationLines(ambiguities, i + 1)

generate_clarification_request(ambiguities) ==
  "I need some clarification to answer your question accurately:\n\n"
    \o ClarificationLines(ambiguities, 1)
    \o "\nCould you provide more details?"

\* SynthesisAgent._generate_error_response
generate_error_response(errors) ==
  "I encountered some difficulties processing your request. "
    \o "This might be because:\n"
    \o "- The information requested isn't available in the dataset\n"
    \o "- The query was too complex or ambiguous\n"
    \o "- There was a technical issue\n\n"
    \o "Could you try rephrasing your question or being more specific?"

SynthesisFailureText ==
  "I encountered an error generating the response. Please try rephrasing your question."

\* sum(r.get("row_count", 0) for r in query_results)
RECURSIVE SumRows(_)
SumRows(results) ==
  IF results = <<>> THEN 0 ELSE Head(results).row_count + SumRows(Tail(results))

\* what the completion service gives the synthesis agent
SynthesisAnswers ==
  {[ok |-> TRUE, msg |-> "", content |-> "The answer."]}
  \cup {[ok |-> FALSE, msg |-> m, content |-> ""] : m \in ExcMsgs}

\* a synthesis that looks at the errors before the ambiguities
synthesize_response_errors_first(state, ans) ==
  IF state.errors # <<>> /\ ~(state.query_results # <<>>)
  THEN [state |-> [state EXCEPT !.final_response =
                       generate_error_response(state.errors)],
        llm_calls |-> 0]
  ELSE IF state.ambiguities # <<>>
  THEN [state |-> [state EXCEPT !.final_response =
                       generate_clarification_request(state.ambiguities)],
        llm_calls |-> 0]
  ELSE IF ans.ok
  THEN [state |-> [state EXCEPT
                     !.final_response = ans.content,
                     !.response_metadata =
                        Some([queries_executed |-> Len(state.query_results),
                              rows_processed |-> SumRows(state.query_results),
                              has_visualization |-> state.chart_config # None])],
        llm_calls |-> 1]
  ELSE [state |-> [state EXCEPT
                     !.final_response = SynthesisFailureText,
                     !.errors = Append(@, "Synthesis error: " \o ans.msg)],
        llm_calls |-> 1]

\* a synthesis whose failure branch also records an entry in errors
synthesize_response_records_failure(state, ans) ==
  IF state.ambiguities # <<>>
  THEN [state |-> [state EXCEPT !.final_response =
                       generate_clarification_request(state.ambiguities)],
        llm_calls |-> 0]
  ELSE IF state.errors # <<>> /\ ~(state.query_results # <<>>)
  THEN [state |-> [state EXCEPT
                     !.final_response = generate_error_response(state.errors),
                     !.errors = Append(@, "Synthesis error: no data")],
        llm_calls |-> 0]
  ELSE IF ans.ok
  THEN [state |-> [state EXCEPT
                     !.final_response = ans.content,
                     !.response_metadata =
                        Some([queries_executed |-> Len(state.query_results),
                              rows_processed |-> SumRows(state.query_results),
                              has_visualization |-> state.chart_config # None])],
        llm_calls |-> 1]
  ELSE [state |-> [state EXCEPT
                     !.final_response = SynthesisFailureText,
                     !.errors = Append(@, "Synthesis error: " \o ans.msg)],
        llm_calls |-> 1]

\* SynthesisAgent.synthesize_response: the state it returns, and the number of
\* calls of self.llm.invoke it made
synthesize_response(state, ans) ==
  IF state.ambiguities # <<>>
  THEN [state |-> [state EXCEPT !.final_response =
                       generate_clarification_request(state.ambiguities)],
        llm_calls |-> 0]
  ELSE IF state.errors # <<>> /\ ~(state.query_results # <<>>)
  THEN [state |-> [state EXCEPT !.final_response =
                       generate_error_response(state.errors)],
        llm_calls |-> 0]
  ELSE IF ans.ok
  THEN [state |-> [state EXCEPT
                     !.final_response = ans.content,
                     !.response_metadata =
                        Some([queries_executed |-> Len(state.query_results),
                              rows_processed |-> SumRows(state.query_results),
                              has_visualization |-> state.chart_config # None])],
        llm_calls |-> 1]
  ELSE [state |-> [state EXCEPT
                     !.final_response = SynthesisFailureText,
                     !.errors = Append(@, "Synthesis error: " \o ans.msg)],
        llm_calls |-> 1]

(***************************************************************************)
(* The state machine of one invocation of the workflow.                    *)
(***************************************************************************)
VARIABLES
  pc,              \* the graph node about to run, or "END"
  state,           \* the AgentState flowing through the graph
  idx,             \* position of the executor's for loop in execution_plan
  dispatched,      \* per plan position: number of handler invocations
  examined,        \* plan positions the executor's loop has reached
  skipped,         \* plan positions the loop passed over without running them
  raised_steps,    \* plan positions whose handler let an exception escape
  gate_log,        \* verdicts of _validate_query: <<[query, is_valid, error]>>
  explain_calls,   \* the backend's dry runs: <<[query, ok]>>
  execute_calls,   \* the queries given to the backend's execute
  synth_runs,      \* number of runs of the synthesis node
  synth_llm_calls, \* completion-service calls made by synthesis
  memory,          \* conversation_memory.messages of the orchestrator
  added,           \* every message given to add_message since the last clear()
  envelope,        \* what the last process_query returned; None during a call
  calls,           \* number of process_query calls started
  replies          \* what the completion service gave intent and planner

vars == <<pc, state, idx, dispatched, examined, skipped, raised_steps, gate_log,
          explain_calls, execute_calls, synth_runs, synth_llm_calls,
          memory, added, envelope, calls, replies>>

\* what lives outside the workflow of one invocation
session == <<memory, added, envelope, calls>>

\* the observations of the executor pass
pass_obs == <<dispatched, examined, skipped, raised_steps, gate_log,
              explain_calls, execute_calls>>

plan == state.execution_plan

Init ==
  /\ pc = "intent"
  /\ state = create_initial_state
  /\ idx = 1
  /\ dispatched = <<>>
  /\ examined = {}
  /\ skipped = {}
  /\ raised_steps = {}
  /\ gate_log = <<>>
  /\ explain_calls = <<>>
  /\ execute_calls = <<>>
  /\ synth_runs = 0
  /\ synth_llm_calls = 0
  /\ memory = <<>>
  /\ added = <<>>
  /\ envelope = None
  /\ calls = 1
  /\ replies = <<>>

\* the log after _planner_node: the kind of the completion service's answer
\* when create_plan asked for one
planner_reply(ans) ==
  IF planner_calls_llm(state)
  THEN Append(replies, [agent |-> "planner", reply |-> ans.kind])
  ELSE replies

\* _intent_node
IntentNode ==
  /\ pc = "intent"
  /\ \E ans \in IntentAnswers :
       /\ state' = node_return(analyze_intent(state, ans))
       /\ replies' = Append(replies, [agent |-> "intent", reply |-> ans])
  /\ pc' = NextNode("intent")
  /\ UNCHANGED session
  /\ UNCHANGED <<idx, pass_obs, synth_runs, synth_llm_calls>>

\* _planner_node
PlannerNode ==
  /\ pc = "planner"
  /\ \/ \E ans \in PlannerFailures :
          /\ state' = node_return(create_plan(state, ans))
          /\ replies' = planner_reply(ans)
     \/ \E n \in 0..MaxSteps : \E kd \in PlanShapes(n) :
          /\ state' = node_return(create_plan(state, PlannerPlan(PlanOf(n, kd))))
          /\ replies' = planner_reply(PlannerPlan(<<>>))
  /\ dispatched' = [i \in 1..Len(state'.execution_plan) |-> 0]
  /\ pc' = NextNode("planner")
  /\ UNCHANGED session
  /\ UNCHANGED <<idx, examined, skipped, raised_steps, gate_log, explain_calls,
                 execute_calls, synth_runs, synth_llm_calls>>

\* the test the loop of _executor_node makes before it runs a step
Ready(i) ==
  /\ ~plan[i].completed
  /\ dependencies_met(plan, plan[i].dependencies)

InLoop == pc = "executor" /\ idx \in 1..Len(plan)

\* a loop that reports the step it passes over as a failure of that step
SkipStep_reports_blocked ==
  /\ InLoop
  /\ ~Ready(idx)
  /\ state' = [state EXCEPT
                 !.execution_plan[idx].error = Some("Dependencies not met"),
                 !.errors = Append(@, "Step " \o ToString(idx) \o " skipped")]
  /\ idx' = idx + 1
  /\ examined' = examined \cup {idx}
  /\ skipped' = skipped \cup {idx}
  /\ UNCHANGED session
  /\ UNCHANGED replies
  /\ UNCHANGED <<pc, dispatched, raised_steps, gate_log, explain_calls,
                 execute_calls, synth_runs, synth_llm_calls>>

\* one iteration of the loop of _executor_node that runs no handler: the step
\* is completed already, or its dependencies are not met (`continue`)
SkipStep ==
  /\ InLoop
  /\ ~Ready(idx)
  /\ idx' = idx + 1
  /\ examined' = examined \cup {idx}
  /\ skipped' = skipped \cup {idx}
  /\ UNCHANGED session
  /\ UNCHANGED replies
  /\ UNCHANGED <<pc, state, dispatched, raised_steps, gate_log, explain_calls,
                 execute_calls, synth_runs, synth_llm_calls>>

\* a loop that an escaping exception ends
Dispatch_aborts_on_exception(r0) ==
  LET r == catch_step_exception(r0)
  IN  /\ state' = [r.state EXCEPT !.execution_plan[idx] = r.step]
      /\ idx' = IF r0.raised = None THEN idx + 1 ELSE Len(plan) + 1
      /\ examined' = examined \cup {idx}
      /\ dispatched' = [dispatched EXCEPT ![idx] = @ + 1]
      /\ raised_steps' = IF r0.raised = None THEN raised_steps
                         ELSE raised_steps \cup {idx}
      /\ gate_log' = gate_log \o r.validated
      /\ explain_calls' = explain_calls \o r.explained
      /\ execute_calls' = execute_calls \o r.executed
      /\ UNCHANGED session
      /\ UNCHANGED replies
      /\ UNCHANGED <<pc, skipped, synth_runs, synth_llm_calls>>

\* the effect of one handler call, made through the try/except of the loop
Dispatch(r0) ==
  LET r == catch_step_exception(r0)
  IN  /\ state' = [r.state EXCEPT !.execution_plan[idx] = r.step]
      /\ idx' = idx + 1
      /\ examined' = examined \cup {idx}
      /\ dispatched' = [dispatched EXCEPT ![idx] = @ + 1]
      /\ raised_steps' = IF r0.raised = None THEN raised_steps
                         ELSE raised_steps \cup {idx}
      /\ gate_log' = gate_log \o r.validated
      /\ explain_calls' = explain_calls \o r.explained
      /\ execute_calls' = execute_calls \o r.executed
      /\ UNCHANGED session
      /\ UNCHANGED replies
      /\ UNCHANGED <<pc, skipped, synth_runs, synth_llm_calls>>

DispatchDataRetrieval ==
  /\ InLoop
  /\ Ready(idx)
  /\ plan[idx].agent_type = "data_retrieval"
  /\ \E be \in BackendAnswers :
       Dispatch(execute_retrieval_step(state, plan[idx], be))

DispatchAnalysis ==
  /\ InLoop
  /\ Ready(idx)
  /\ plan[idx].agent_type = "analysis"
  /\ \E an \in AnalysisAnswers(AnalysisTypeOf[plan[idx].description]) :
       Dispatch(execute_analysis_step(state, plan[idx], an))

DispatchVisualization ==
  /\ InLoop
  /\ Ready(idx)
  /\ plan[idx].agent_type = "visualization"
  /\ \E vz \in ChartAnswers :
       Dispatch(execute_visualization_step(state, plan[idx], vz))

\* the else branch: a step of any other agent type is only marked completed
CompleteOtherStep ==
  /\ InLoop
  /\ Ready(idx)
  /\ plan[idx].agent_type \notin {"data_retrieval", "analysis", "visualization"}
  /\ state' = [state EXCEPT !.execution_plan[idx].completed = TRUE]
  /\ idx' = idx + 1
  /\ examined' = examined \cup {idx}
  /\ UNCHANGED session
  /\ UNCHANGED replies
  /\ UNCHANGED <<pc, dispatched, skipped, raised_steps, gate_log, explain_calls,
                 execute_calls, synth_runs, synth_llm_calls>>

\* an executor that scans the plan again while some step has become ready
ExecutorReturn_rescans ==
  /\ pc = "executor"
  /\ idx > Len(plan)
  /\ IF \E i \in 1..Len(plan) : Ready(i)
     THEN idx' = 1 /\ UNCHANGED <<pc, state>>
     ELSE /\ state' = node_return(state)
          /\ pc' = NextNode("executor")
          /\ idx' = idx
  /\ UNCHANGED session
  /\ UNCHANGED replies
  /\ UNCHANGED <<pass_obs, synth_runs, synth_llm_calls>>

\* the loop of _executor_node is over: the node returns the state
ExecutorReturn ==
  /\ pc = "executor"
  /\ idx > Len(plan)
  /\ state' = node_return(state)
  /\ pc' = NextNode("executor")
  /\ UNCHANGED session
  /\ UNCHANGED replies
  /\ UNCHANGED <<idx, pass_obs, synth_runs, synth_llm_calls>>

\* _synthesis_node
SynthesisNode ==
  /\ pc = "synthesis"
  /\ \E ans \in SynthesisAnswers :
       /\ state' = node_return(synthesize_response(state, ans).state)
       /\ synth_llm_calls' = synth_llm_calls + synthesize_response(state, ans).llm_calls
  /\ synth_runs' = synth_runs + 1
  /\ pc' = NextNode("synthesis")
  /\ UNCHANGED session
  /\ UNCHANGED replies
  /\ UNCHANGED <<idx, pass_obs>>

Next ==
  \/ IntentNode
  \/ PlannerNode
  \/ SkipStep
  \/ DispatchDataRetrieval
  \/ DispatchAnalysis
  \/ DispatchVisualization
  \/ CompleteOtherStep
  \/ ExecutorReturn
  \/ SynthesisNode

Spec == Init /\ [][Next]_vars

(***************************************************************************)
(* The validation gate on its own: a one-step plan whose data-retrieval    *)
(* step holds any query of the wide family, about to be executed.          *)
(***************************************************************************)
GateInit ==
  /\ pc = "executor"
  /\ \E q \in GateQueries :
       state = [create_initial_state EXCEPT
                  !.detected_intent = Some("lookup"),
                  !.execution_plan =
                     << ParsedStep(1, [agent_type |-> "data_retrieval",
                                       description |-> "Query the table",
                                       result |-> Some(PyStr(q))], {}) >>]
  /\ idx = 1
  /\ dispatched = <<0>>
  /\ examined = {}
  /\ skipped = {}
  /\ raised_steps = {}
  /\ gate_log = <<>>
  /\ explain_calls = <<>>
  /\ execute_calls = <<>>
  /\ synth_runs = 0
  /\ synth_llm_calls = 0
  /\ memory = <<>>
  /\ added = <<>>
  /\ envelope = None
  /\ calls = 1
  /\ replies = <<>>

GateSpec == GateInit /\ [][DispatchDataRetrieval]_vars

(***************************************************************************)
(* Synthesis on its own: synthesize_response applied to any accumulated    *)
(* state.                                                                  *)
(***************************************************************************)
SynthInputResults ==
  {<<>>,
   << [step_id |-> 1, sql_query |-> QueryValid, row_count |-> 2] >>,
   << [step_id |-> 1, sql_query |-> QueryValid, row_count |-> 2],
      [step_id |-> 2, sql_query |-> QueryValid, row_count |-> 0] >>}

SynthInit ==
  /\ pc = "synthesis"
  /\ \E a \in {<<>>, <<"which year?">>, <<"which year?", "which company?">>},
        e \in {<<>>, <<"Query execution error: boom">>,
               <<"Query execution error: boom", "Analysis error: ">>},
        qr \in SynthInputResults,
        ch \in {None, Some(PyDict({"type", "data", "html"}))} :
       state = [create_initial_state EXCEPT
                  !.detected_intent = Some("lookup"),
                  !.ambiguities = a, !.errors = e,
                  !.query_results = qr, !.chart_config = ch]
  /\ idx = 1
  /\ dispatched = <<>>
  /\ examined = {}
  /\ skipped = {}
  /\ raised_steps = {}
  /\ gate_log = <<>>
  /\ explain_calls = <<>>
  /\ execute_calls = <<>>
  /\ synth_runs = 0
  /\ synth_llm_calls = 0
  /\ memory = <<>>
  /\ added = <<>>
  /\ envelope = None
  /\ calls = 1
  /\ replies = <<>>

SynthSpec == SynthInit /\ [][SynthesisNode]_vars

(***************************************************************************)
(* Synthesis run twice: the synthesis node, then synthesize_response       *)
(* called once more on the state the node left.                            *)
(***************************************************************************)
SynthesizeAgain ==
  /\ pc = "END"
  /\ synth_runs = 1
  /\ \E ans \in SynthesisAnswers :
       /\ state' = synthesize_response(state, ans).state
       /\ synth_llm_calls' = synth_llm_calls + synthesize_response(state, ans).llm_calls
  /\ synth_runs' = synth_runs + 1
  /\ UNCHANGED session
  /\ UNCHANGED replies
  /\ UNCHANGED <<pc, idx, pass_obs>>

ResynthSpec == SynthInit /\ [][SynthesisNode \/ SynthesizeAgain]_vars

(***************************************************************************)
(* The orchestrator across invocations: process_query and                  *)
(* reset_conversation called one after the other on one orchestrator, with *)
(* its conversation memory.                                                *)
(***************************************************************************)
MaxQueries == 2

\* ConversationMemory.__init__: max_history
max_history == 10

\* a ConversationMessage (the timestamp is not modelled)
Message(role, content, metadata) ==
  [role |-> role, content |-> content, metadata |-> metadata]

\* a memory that, once full, keeps its oldest messages
add_message_keeps_oldest(messages, role, content, metadata) ==
  LET appended == Append(messages, Message(role, content, metadata))
  IN  IF Len(appended) > max_history
      THEN SubSeq(appended, 1, max_history)
      ELSE appended

\* ConversationMemory.add_message
add_message(messages, role, content, metadata) ==
  LET appended == Append(messages, Message(role, content, metadata))
  IN  IF Len(appended) > max_history
      THEN SubSeq(appended, Len(appended) - max_history + 1, Len(appended))
      ELSE appended

\* ConversationMemory.clear
clear == <<>>

\* list.copy(): a new list with the same elements
list_copy(l) == [i \in 1..Len(l) |-> l[i]]

\* the text of the user's k-th question
user_query(k) == "question " \o ToString(k)

\* the response dict process_query builds from the final state
response_envelope(final_state) ==
  [response |-> final_state.final_response,
   metadata |-> final_state.response_metadata,
   chart_config |-> final_state.chart_config,
   query_results |-> final_state.query_results,
   errors |-> final_state.errors,
   detected_intent |-> final_state.detected_intent]

\* an except branch whose response leaves the detected intent out
error_envelope_without_intent(msg) ==
  [response |-> "An error occurred: " \o msg,
   metadata |-> None,
   chart_config |-> None,
   query_results |-> <<>>,
   errors |-> <<msg>>]

\* the response dict of process_query's except branch
error_envelope(msg) ==
  [response |-> "An error occurred: " \o msg,
   metadata |-> None,
   chart_config |-> None,
   query_results |-> <<>>,
   errors |-> <<msg>>,
   detected_intent |-> None]

\* messages an orchestrator holds after k earlier exchanges
RECURSIVE EarlierExchanges(_)
EarlierExchanges(k) ==
  IF k = 0 THEN <<>>
  ELSE EarlierExchanges(k - 1)
         \o << Message("user", "earlier question " \o ToString(k), None),
               Message("assistant", "earlier answer " \o ToString(k), None) >>

\* an idle orchestrator that has answered no, four or five questions
SessionInit ==
  /\ pc = "idle"
  /\ state = create_initial_state
  /\ idx = 1
  /\ dispatched = <<>>
  /\ examined = {}
  /\ skipped = {}
  /\ raised_steps = {}
  /\ gate_log = <<>>
  /\ explain_calls = <<>>
  /\ execute_calls = <<>>
  /\ synth_runs = 0
  /\ synth_llm_calls = 0
  /\ \E k \in {0, 4, 5} : memory = EarlierExchanges(k)
  /\ added = memory
  /\ envelope = None
  /\ calls = 0
  /\ replies = <<>>

\* a process_query that runs the workflow on the state of the call before
ProcessQuery_reuses_state ==
  /\ pc = "idle"
  /\ calls < MaxQueries
  /\ calls' = calls + 1
  /\ state' = [state EXCEPT !.conversation_history = list_copy(memory),
                            !.execution_plan = <<>>]
  /\ pc' = "intent"
  /\ idx' = 1
  /\ dispatched' = <<>>
  /\ examined' = {}
  /\ skipped' = {}
  /\ raised_steps' = {}
  /\ gate_log' = <<>>
  /\ explain_calls' = <<>>
  /\ execute_calls' = <<>>
  /\ synth_runs' = 0
  /\ synth_llm_calls' = 0
  /\ envelope' = None
  /\ replies' = <<>>
  /\ UNCHANGED <<memory, added>>

\* process_query up to workflow.invoke: a fresh state with a copy of the memory
ProcessQuery ==
  /\ pc = "idle"
  /\ calls < MaxQueries
  /\ calls' = calls + 1
  /\ state' = [create_initial_state EXCEPT
                 !.conversation_history = list_copy(memory)]
  /\ pc' = "intent"
  /\ idx' = 1
  /\ dispatched' = <<>>
  /\ examined' = {}
  /\ skipped' = {}
  /\ raised_steps' = {}
  /\ gate_log' = <<>>
  /\ explain_calls' = <<>>
  /\ execute_calls' = <<>>
  /\ synth_runs' = 0
  /\ synth_llm_calls' = 0
  /\ envelope' = None
  /\ replies' = <<>>
  /\ UNCHANGED <<memory, added>>

\* process_query after workflow.invoke has returned: the response is built,
\* the two messages are added to the memory, the response is returned
ProcessQueryReturn ==
  /\ pc = "END"
  /\ LET response == response_envelope(state)
     IN  /\ memory' = add_message(
                        add_message(memory, "user", user_query(calls), None),
                        "assistant", response.response, response.metadata)
         /\ added' = added \o << Message("user", user_query(calls), None),
                                 Message("assistant", response.response,
                                         response.metadata) >>
         /\ envelope' = Some(response)
  /\ pc' = "idle"
  /\ UNCHANGED <<state, idx, pass_obs, replies, synth_runs, synth_llm_calls, calls>>

\* an except branch that still records the user's query in the memory
ProcessQueryExcept_records_query ==
  /\ pc \in {"intent", "planner", "executor", "synthesis"}
  /\ \E msg \in ExcMsgs : envelope' = Some(error_envelope(msg))
  /\ memory' = add_message(memory, "user", user_query(calls), None)
  /\ added' = Append(added, Message("user", user_query(calls), None))
  /\ pc' = "idle"
  /\ UNCHANGED <<state, idx, pass_obs, replies, synth_runs, synth_llm_calls, calls>>

\* workflow.invoke raises out of a node and process_query's except branch
\* returns the error response
ProcessQueryExcept ==
  /\ pc \in {"intent", "planner", "executor", "synthesis"}
  /\ \E msg \in ExcMsgs : envelope' = Some(error_envelope(msg))
  /\ pc' = "idle"
  /\ UNCHANGED <<state, idx, pass_obs, replies, synth_runs, synth_llm_calls, calls,
                 memory, added>>

\* reset_conversation
ResetConversation ==
  /\ pc = "idle"
  /\ memory # <<>>
  /\ memory' = clear
  /\ added' = <<>>
  /\ UNCHANGED <<pc, state, idx, pass_obs, replies, synth_runs, synth_llm_calls,
                 envelope, calls>>

\* the plans the completion service returns in a session
ScenarioPlans ==
  {<<>>,
   PlanOf(2, <<<<[agent_type |-> "data_retrieval", description |-> "Query the table",
                  result |-> Some(PyStr(QueryValid))], {}>>,
               <<[agent_type |-> "analysis", description |-> Text(AnalysisDescription),
                  result |-> None], {1}>>>>),
   PlanOf(2, <<<<[agent_type |-> "data_retrieval", description |-> "Query the table",
                  result |-> Some(PyStr(QueryWrongTable))], {}>>,
               <<[agent_type |-> "visualization", description |-> "Create chart",
                  result |-> None], {1}>>>>),
   PlanOf(2, <<<<[agent_type |-> "data_retrieval", description |-> "Query the table",
                  result |-> Some(PyStr(QueryValid))], {}>>,
               <<[agent_type |-> "visualization", description |-> "Create chart",
                  result |-> None], {1}>>>>)}

\* _planner_node with the plans of a session
SessionPlannerNode ==
  /\ pc = "planner"
  /\ \/ \E ans \in PlannerFailures :
          /\ state' = node_return(create_plan(state, ans))
          /\ replies' = planner_reply(ans)
     \/ \E p \in ScenarioPlans :
          /\ state' = node_return(create_plan(state, PlannerPlan(p)))
          /\ replies' = planner_reply(PlannerPlan(<<>>))
  /\ dispatched' = [i \in 1..Len(state'.execution_plan) |-> 0]
  /\ pc' = NextNode("planner")
  /\ UNCHANGED session
  /\ UNCHANGED <<idx, examined, skipped, raised_steps, gate_log, explain_calls,
                 execute_calls, synth_runs, synth_llm_calls>>

SessionNext ==
  \/ ProcessQuery
  \/ IntentNode
  \/ SessionPlannerNode
  \/ SkipStep
  \/ DispatchDataRetrieval
  \/ DispatchAnalysis
  \/ DispatchVisualization
  \/ CompleteOtherStep
  \/ ExecutorReturn
  \/ SynthesisNode
  \/ ProcessQueryReturn
  \/ ProcessQueryExcept
  \/ ResetConversation

SessionSpec == SessionInit /\ [][SessionNext]_vars

(***************************************************************************)
(* Properties.                                                             *)
(***************************************************************************)
IsPrefix(a, b) == Len(a) <= Len(b) /\ SubSeq(b, 1, Len(a)) = a
Count(seq, x) == Cardinality({k \in 1..Len(seq) : seq[k] = x})
Range(seq) == {seq[k] : k \in 1..Len(seq)}

\* this step of the executor's loop calls the handler of the step at idx
HandlerRuns ==
  /\ InLoop
  /\ Len(dispatched') = Len(dispatched)
  /\ dispatched'[idx] = dispatched[idx] + 1

\* this step of the executor's loop runs the step at idx (through a handler
\* or through the else branch) instead of passing over it
StepRuns == InLoop /\ idx' = idx + 1 /\ idx \notin skipped'

\* C1: a step with a dependency that is not completed, or that completed with
\* an error, is never dispatched to its handler.  Stated on every handler
\* call: each step of the plan that the dispatched step names as a dependency
\* is completed and has no error recorded (error is None).
C1_BlockedNeverDispatched ==
  [][HandlerRuns =>
       \A j \in 1..Len(plan) :
         plan[j].step_id \in plan[idx].dependencies
           => (plan[j].completed /\ plan[j].error = None)]_vars

\* C2: the gate rejects every query that contains a denylisted word, in any
\* letter case and at any position, also inside a longer token: every verdict
\* of the gate on a query built around a spelling of a denylisted word is a
\* rejection.
C2_GateRejectsDenylisted ==
  \A k \in 1..Len(gate_log) :
    gate_log[k].query \in GateDenylisted => ~gate_log[k].is_valid

\* C2 witness: the gate has judged and rejected a query in which UPDATE, in
\* upper case, is part of the token last_UPDATEd_at and the table is named.
C2_EmbeddedUpperQuery ==
  <<"S", "E", "L", "E", "C", "T", " ", "l", "a", "s", "t", "_">>
    \o <<"U", "P", "D", "A", "T", "E">>
    \o <<"d", "_", "a", "t", " ", "F", "R", "O", "M", " ", "s", "p", "5", "0", "0", "_", "c", "o", "m", "p", "a", "n", "i", "e", "s">>
C2_Witness ==
  /\ C2_EmbeddedUpperQuery \in GateDenylisted
  /\ \E k \in 1..Len(gate_log) :
       gate_log[k].query = C2_EmbeddedUpperQuery /\ ~gate_log[k].is_valid

\* C3: execute is called only with a query that passed the three rules of the
\* gate, and a data-retrieval step that the gate rejects, or that has no query
\* string, gets its error set, one entry appended to errors, is completed, and
\* leaves execute uncalled and generatedQueries and queryResults as they were.
C3_PassedGate(q) ==
  /\ q \notin {QueryEmbedded, QueryWrongTable}
  /\ Count(execute_calls, q) <= Count(explain_calls, [query |-> q, ok |-> TRUE])
C3_Rejected ==
  \/ plan[idx].result = None
  \/ /\ Len(gate_log') = Len(gate_log) + 1
     /\ ~gate_log'[Len(gate_log')].is_valid
C3_RejectionEffect ==
  /\ state'.execution_plan[idx].completed
  /\ Truthy(state'.execution_plan[idx].error)
  /\ state'.errors # state.errors
  /\ Len(state'.errors) = Len(state.errors) + 1
  /\ IsPrefix(state.errors, state'.errors)
  /\ execute_calls' = execute_calls
  /\ state'.sql_queries = state.sql_queries
  /\ state'.query_results = state.query_results
PassOver == pc \in {"synthesis", "END"}

\* C4: errors, generatedQueries (sql_queries), queryResults and insights only
\* grow: in every step of the invocation the old value of each is a prefix of
\* the new one.
C4_AppendOnly ==
  [][/\ IsPrefix(state.errors, state'.errors)
     /\ IsPrefix(state.sql_queries, state'.sql_queries)
     /\ IsPrefix(state.query_results, state'.query_results)
     /\ IsPrefix(state.insights, state'.insights)]_vars

\* C4 witness: an invocation has ended with a handler's exception caught after
\* errors, generated queries and query results had been recorded.
C4_Witness ==
  /\ pc = "END"
  /\ raised_steps = {2}
  /\ state.errors # <<>>
  /\ state.sql_queries # <<>>
  /\ state.query_results # <<>>

\* C5: every dispatched step is completed, and when the pass is over every
\* step is completed or was passed over, undispatched, with dependencies
\* named.
C5_NoStepLeftRunning ==
  /\ Len(dispatched) = Len(plan)
  /\ \A i \in 1..Len(plan) : dispatched[i] >= 1 => plan[i].completed
  /\ PassOver =>
       \A i \in 1..Len(plan) :
         \/ plan[i].completed
         \/ (dispatched[i] = 0 /\ i \in skipped /\ plan[i].dependencies # {})

\* C5 witness: the pass is over, the first step's handler raised and the step
\* is completed with an error, and the second step was passed over.
C5_Witness ==
  /\ PassOver
  /\ raised_steps = {1}
  /\ plan[1].completed
  /\ Len(plan) = 2 /\ 2 \in skipped /\ ~plan[2].completed

\* C6: a handler's exception does not end the pass: the step is completed with
\* its error, errors gets one more entry, the loop goes on to the next
\* position, every position is examined by the end of the pass, and after an
\* exception a step that is not completed and names no dependency is run.
C6_ExceptionDoesNotEndPass ==
  /\ [][(HandlerRuns /\ raised_steps' # raised_steps) =>
          /\ state'.execution_plan[idx].completed
          /\ Truthy(state'.execution_plan[idx].error)
          /\ Len(state'.errors) = Len(state.errors) + 1
          /\ IsPrefix(state.errors, state'.errors)
          /\ pc' = "executor"
          /\ idx' = idx + 1]_vars
  /\ [][(InLoop /\ raised_steps # {} /\ ~plan[idx].completed
           /\ plan[idx].dependencies = {}) => StepRuns]_vars
  /\ [](PassOver => examined = 1..Len(plan))

\* C6 witness: the first step's handler raised and the second step's handler
\* was still called.
C6_Witness ==
  /\ PassOver
  /\ raised_steps = {1}
  /\ dispatched = <<1, 1>>

\* C7: synthesis runs exactly once in an invocation, after the executor pass
\* has finished, and no handler runs and no step changes once it has started.
C7_SynthesisOnceAfterPass ==
  /\ [](/\ synth_runs <= 1
        /\ pc = "END" => synth_runs = 1
        /\ synth_runs = 1 =>
             (pc = "END" /\ idx = Len(plan) + 1 /\ examined = 1..Len(plan)))
  /\ [][synth_runs' # synth_runs =>
          (pc = "synthesis" /\ idx = Len(plan) + 1 /\ synth_runs' = synth_runs + 1)]_vars
  /\ [][(pc = "synthesis" \/ synth_runs >= 1) =>
          (dispatched' = dispatched /\ state'.execution_plan = plan)]_vars

\* C7 witness: synthesis has run once although the first step failed and the
\* second was passed over.
C7_Witness ==
  /\ pc = "END"
  /\ synth_runs = 1
  /\ Len(plan) = 2
  /\ Truthy(plan[1].error)
  /\ 2 \in skipped

\* C8: a step is run if and only if it is not completed and every step id in
\* its dependencies is present in the plan and belongs only to steps that are
\* completed with no error.
C8_ReadyPerSpec(i) ==
  \A d \in plan[i].dependencies :
    /\ \E j \in 1..Len(plan) : plan[j].step_id = d
    /\ \A j \in 1..Len(plan) :
         plan[j].step_id = d => (plan[j].completed /\ plan[j].error = None)
C8_ReadyIffDependenciesPresentAndOk ==
  [][InLoop => (StepRuns <=> (~plan[idx].completed /\ C8_ReadyPerSpec(idx)))]_vars

\* C9: a step's completed flag never goes back from true to false, no step's
\* handler is invoked more than once, and no handler is invoked for a step
\* that is completed.
C9_CompletedOnceNoRetry ==
  /\ [][\A i \in (1..Len(plan)) \cap (1..Len(state'.execution_plan)) :
          plan[i].completed => state'.execution_plan[i].completed]_vars
  /\ [](\A i \in 1..Len(dispatched) : dispatched[i] <= 1)
  /\ [][HandlerRuns => ~plan[idx].completed]_vars

\* C9 witness: the invocation has ended with a failed step whose handler was
\* called once.
C9_Witness ==
  /\ pc = "END"
  /\ Len(plan) = 2
  /\ plan[2].completed /\ Truthy(plan[2].error)
  /\ dispatched[2] = 1

\* C10: synthesis takes the clarification branch whenever ambiguities is not
\* empty, whatever errors and queryResults hold; otherwise the generic failure
\* branch when errors is not empty and queryResults is empty; otherwise, and
\* only then, it calls the completion service.
C10_TwoAmbiguitiesText ==
  "I need some clarification to answer your question accurately:\n\n"
    \o "1. which year?\n2. which company?\n"
    \o "\nCould you provide more details?"
C10_SynthesisPriority ==
  [][pc = "synthesis" =>
       IF state.ambiguities # <<>>
       THEN /\ state'.final_response = generate_clarification_request(state.ambiguities)
            /\ state.ambiguities = <<"which year?", "which company?">>
                 => state'.final_response = C10_TwoAmbiguitiesText
            /\ synth_llm_calls' = synth_llm_calls
       ELSE IF state.errors # <<>> /\ state.query_results = <<>>
       THEN /\ state'.final_response = generate_error_response(state.errors)
            /\ synth_llm_calls' = synth_llm_calls
       ELSE /\ synth_llm_calls' = synth_llm_calls + 1
            /\ state'.final_response \in {"The answer.", SynthesisFailureText}]_vars

\* C10 witness: synthesis has answered with the clarification request, without
\* a call of the completion service, on a state that held ambiguities and
\* errors and no query results.
C10_Witness ==
  /\ pc = "END"
  /\ state.ambiguities = <<"which year?", "which company?">>
  /\ state.errors # <<>>
  /\ state.query_results = <<>>
  /\ state.final_response = C10_TwoAmbiguitiesText
  /\ synth_llm_calls = 0
  /\ memory = <<>>
  /\ added = <<>>
  /\ envelope = None
  /\ calls = 1
  /\ replies = <<>>

\* C11: on a state that holds ambiguities, or errors and no query results, a
\* second run of synthesis right after the first gives the same final response
\* and leaves every field of the state, errors, query results and response
\* metadata among them, as the first run left it, and calls the completion
\* service neither time.
C11_DeterministicBranch ==
  \/ state.ambiguities # <<>>
  \/ (state.errors # <<>> /\ state.query_results = <<>>)
C11_SynthesisIdempotent ==
  /\ [][(pc = "synthesis" /\ synth_runs = 0 /\ C11_DeterministicBranch) =>
          (synth_llm_calls' = synth_llm_calls /\ C11_DeterministicBranch')]_vars
  /\ [][(pc = "END" /\ synth_runs = 1 /\ synth_llm_calls = 0 /\ synth_runs' = 2) =>
          /\ state'.final_response = state.final_response
          /\ state'.errors = state.errors
          /\ state'.query_results = state.query_results
          /\ state'.response_metadata = state.response_metadata
          /\ state' = state
          /\ synth_llm_calls' = 0]_vars

\* C11 witness: synthesis has run twice on a state with errors and no query
\* results and the generic failure text is the final response.
C11_Witness ==
  /\ synth_runs = 2
  /\ synth_llm_calls = 0
  /\ state.ambiguities = <<>>
  /\ state.errors # <<>>
  /\ state.query_results = <<>>
  /\ state.final_response = generate_error_response(state.errors)

\* C12: in a plan of a retrieval step 1 whose query passes the gate and an
\* analysis step 2 that depends on [1], when the backend fails to execute step
\* 1's query, step 1 is completed with an error, step 2 is never dispatched and
\* stays not completed with no error, and errors holds exactly one entry when
\* synthesis starts.
C12_ScenarioC ==
  /\ Len(plan) = 2
  /\ plan[1].agent_type = "data_retrieval" /\ plan[1].dependencies = {}
  /\ plan[2].agent_type = "analysis" /\ plan[2].dependencies = {1}
  /\ dispatched[1] = 1
  /\ Len(execute_calls) = 1
  /\ state.query_results = <<>>
C12_FailedRetrievalBlocksAnalysis ==
  C12_ScenarioC =>
    /\ plan[1].completed /\ plan[1].error # None
    /\ dispatched[2] = 0
    /\ ~plan[2].completed /\ plan[2].error = None
    /\ pc = "synthesis" => Len(state.errors) = 1

\* C13: in a plan of one retrieval step whose query holds no denylisted
\* keyword and does not name the known table, the gate rejects the query by its
\* table rule, the step's error is set, errors has exactly one entry, query
\* results is empty, the backend is asked neither to explain nor to execute,
\* and synthesis answers with the generic failure explanation.
C13_ScenarioA ==
  /\ Len(plan) = 1
  /\ plan[1].agent_type = "data_retrieval"
  /\ plan[1].result = Some(PyStr(QueryWrongTable))
  /\ dispatched[1] = 1
C13_RejectedByTableRule ==
  C13_ScenarioA =>
    /\ Len(gate_log) = 1
    /\ ~gate_log[1].is_valid
    /\ gate_log[1].error = "Query must reference sp500_companies table"
    /\ plan[1].completed /\ Truthy(plan[1].error)
    /\ Len(state.errors) = 1
    /\ state.query_results = <<>>
    /\ explain_calls = <<>> /\ execute_calls = <<>>
    /\ pc = "END" => state.final_response = generate_error_response(state.errors)

\* C14 as stated: when ambiguities is not empty at plan creation, or the plan
\* is empty, no retrieval, analysis or visualization handler is dispatched, the
\* backend is never called, generated queries and query results stay empty, and
\* synthesis returns the clarification request listing the ambiguities.
C14_Planned == pc \in {"executor", "synthesis", "END"}
C14_NothingRuns ==
  /\ \A i \in 1..Len(plan) : dispatched[i] = 0
  /\ gate_log = <<>> /\ explain_calls = <<>> /\ execute_calls = <<>>
  /\ state.sql_queries = <<>> /\ state.query_results = <<>>
C14_OneAmbiguityText ==
  "I need some clarification to answer your question accurately:\n\n"
    \o "1. which year?\n"
    \o "\nCould you provide more details?"
C14_Clarifies ==
  /\ state.final_response = generate_clarification_request(state.ambiguities)
  /\ state.ambiguities = <<"which year?">> => state.final_response = C14_OneAmbiguityText
  /\ synth_llm_calls = 0
C14_AmbiguousOrEmptyPlanClarifies ==
  (C14_Planned /\ (state.ambiguities # <<>> \/ plan = <<>>)) =>
     /\ C14_NothingRuns
     /\ pc = "END" => C14_Clarifies

\* C14 amended: in both cases nothing is dispatched, the backend is not called
\* and generated queries and query results stay empty; synthesis returns the
\* clarification request, listing the ambiguities each once and in order, when
\* ambiguities is not empty; with an empty plan ambiguities is empty and
\* synthesis returns the generic failure text or what the completion-service
\* branch gives.
C14_AmbiguousClarifiesEmptyPlanSkips ==
  /\ (C14_Planned /\ (state.ambiguities # <<>> \/ plan = <<>>)) => C14_NothingRuns
  /\ (pc = "END" /\ state.ambiguities # <<>>) => C14_Clarifies
  /\ (pc = "END" /\ plan = <<>>) =>
       /\ state.ambiguities = <<>>
       /\ state.final_response \in
            {generate_error_response(state.errors), "The answer.", SynthesisFailureText}

\* C14 witness: the invocation has ended with the clarification request for the
\* one ambiguity the intent agent found, the clarification step completed and
\* no handler called.
C14_Witness ==
  /\ pc = "END"
  /\ state.ambiguities = <<"which year?">>
  /\ state.final_response = C14_OneAmbiguityText
  /\ Len(plan) = 1 /\ plan[1].completed /\ dispatched = <<0>>

\* C15: in a plan of a retrieval step 1 and an analysis step 2 that depends on
\* [1], when step 1 succeeds, step 2 is dispatched in the same pass, both steps
\* end completed with no error, query results has one entry, and computed
\* metrics has gained entries.
C15_ScenarioB ==
  /\ Len(plan) = 2
  /\ plan[1].agent_type = "data_retrieval" /\ plan[1].dependencies = {}
  /\ plan[2].agent_type = "analysis" /\ plan[2].dependencies = {1}
  /\ plan[1].completed /\ plan[1].error = None
  /\ Len(execute_calls) = 1
C15_RetrievalThenAnalysis ==
  (C15_ScenarioB /\ PassOver) =>
    /\ dispatched = <<1, 1>>
    /\ plan[2].completed /\ plan[2].error = None
    /\ Len(state.query_results) = 1
    /\ state.computed_metrics # {}

\* C16: at the end of an invocation query results holds exactly one entry per
\* retrieval step that succeeded, generated queries has the same length, and
\* nothing recorded in errors, generated queries or query results is there
\* twice: a node that returns the state adds no entry of its own.
C16_Succeeded ==
  {i \in 1..Len(plan) : /\ plan[i].agent_type = "data_retrieval"
                        /\ plan[i].completed /\ plan[i].error = None
                        /\ dispatched[i] = 1}
C16_OneEntryPerSuccess ==
  /\ [](pc = "END" =>
          /\ Len(state.query_results) = Cardinality(C16_Succeeded)
          /\ Len(state.sql_queries) = Len(state.query_results))
  /\ [][(pc = "executor" /\ pc' = "synthesis") =>
          /\ state'.errors = state.errors
          /\ state'.sql_queries = state.sql_queries
          /\ state'.query_results = state.query_results]_vars

\* C17: whenever a handler, or the loop's except branch, finishes a step with
\* the step's error set, at least one entry was appended to errors during that
\* step, so during the pass the steps with an error are never more than the
\* entries of errors.
C17_FailureRecordedTwice ==
  /\ [][(HandlerRuns /\ state'.execution_plan[idx].error # None) =>
          (/\ Len(state'.errors) > Len(state.errors)
           /\ IsPrefix(state.errors, state'.errors))]_vars
  /\ [](pc = "executor" =>
          Cardinality({i \in 1..Len(plan) : plan[i].error # None})
            <= Len(state.errors))

\* C18: every call of process_query ends by returning a response with the six
\* fields response, metadata, chart_config, query_results, errors and
\* detected_intent, taken from the final state when the workflow returns; when
\* the workflow raises, errors is the one exception message, query_results is
\* empty, and there is no chart and no detected intent.
C18_Fields ==
  {"response", "metadata", "chart_config", "query_results", "errors",
   "detected_intent"}
C18_AlwaysAnEnvelope ==
  /\ [](pc = "idle" /\ calls > 0 =>
          envelope # None /\ DOMAIN envelope[1] = C18_Fields)
  /\ [](pc # "idle" => envelope = None)
  /\ [][(pc = "END" /\ pc' = "idle") =>
          /\ envelope'[1].response = state.final_response
          /\ envelope'[1].metadata = state.response_metadata
          /\ envelope'[1].chart_config = state.chart_config
          /\ envelope'[1].query_results = state.query_results
          /\ envelope'[1].errors = state.errors
          /\ envelope'[1].detected_intent = state.detected_intent]_vars
  /\ [][(pc \notin {"END", "idle"} /\ pc' = "idle") =>
          /\ \E msg \in ExcMsgs :
               /\ envelope'[1].errors = <<msg>>
               /\ envelope'[1].response = "An error occurred: " \o msg
          /\ envelope'[1].query_results = <<>>
          /\ envelope'[1].chart_config = None
          /\ envelope'[1].detected_intent = None
          /\ envelope'[1].metadata = None]_vars

\* C18 witness: the workflow raised after a retrieval step had recorded a
\* result, and the response holds the exception's message and no result.
C18_Witness ==
  /\ pc = "idle"
  /\ envelope # None
  /\ envelope[1].errors = <<"boom">>
  /\ envelope[1].response = "An error occurred: boom"
  /\ envelope[1].query_results = <<>>
  /\ state.query_results # <<>>

\* C19: the memory never holds more than max_history messages, it holds the
\* most recent of the messages added since the last reset, in the order they
\* were added, and it changes only when no workflow is running: when
\* process_query has its final state, or between calls.
C19_MostRecent(log) ==
  IF Len(log) <= 10 THEN log ELSE SubSeq(log, Len(log) - 9, Len(log))
C19_BoundedSlidingWindow ==
  /\ [](Len(memory) <= 10)
  /\ [](memory = C19_MostRecent(added))
  /\ [][memory' # memory => pc \in {"END", "idle"}]_vars

\* C19 witness: an orchestrator that held ten messages has answered one more
\* question; the oldest exchange is gone and the new one is last.
C19_Witness ==
  /\ pc = "idle"
  /\ Len(added) = 12
  /\ Len(memory) = 10
  /\ memory[1].content = "earlier question 2"
  /\ memory[9].content = "question 1"
  /\ memory[10].role = "assistant"

\* C20: every call of process_query starts from a state with empty errors,
\* generated queries, query results, computed metrics and plan and no chart,
\* whatever the call before left; only the conversation history, a copy of the
\* memory, is carried into it, and a change of the state's conversation history
\* during the workflow leaves the memory as it was.
C20_FreshStatePerCall ==
  /\ [][(pc = "idle" /\ pc' # "idle") =>
          /\ pc' = "intent"
          /\ state'.errors = <<>>
          /\ state'.sql_queries = <<>>
          /\ state'.query_results = <<>>
          /\ state'.computed_metrics = {}
          /\ state'.execution_plan = <<>>
          /\ state'.chart_config = None
          /\ state'.final_response = ""
          /\ state'.conversation_history = memory
          /\ memory' = memory
          /\ envelope' = None]_vars
  /\ [][state'.conversation_history # state.conversation_history =>
          memory' = memory]_vars
  /\ [](pc = "intent" => state.errors = <<>> /\ state.query_results = <<>>)

\* C20 witness: the second call is under way after a call that ended in the
\* generic failure text; its state holds no error, and its conversation
\* history, doubled by the intent node's return, is no longer the memory's.
C20_Witness ==
  /\ calls = 2
  /\ pc = "planner"
  /\ memory # <<>>
  /\ memory[Len(memory)].content = generate_error_response(<<>>)
  /\ state.errors = <<>>
  /\ Len(state.conversation_history) = 2 * Len(memory)

\* ---------------------------------------------------------------------------
\* Intent extraction on a reply that cannot be used

\* the replies of the completion service that the intent agent cannot use as
\* they are: a failed call, text that is not JSON, JSON that is no object, an
\* object whose intent is no member of QueryIntent, an object whose ambiguities
\* is no list
C21_MalformedReplies ==
  {ans \in IntentAnswers :
     \/ ans.kind \in {"error", "bad_json", "not_object"}
     \/ ans.intent \notin QueryIntentValues
     \/ ~ans.amb_is_list}
C21_IntentReplyMalformed ==
  /\ replies # <<>>
  /\ replies[1].agent = "intent"
  /\ replies[1].reply \in C21_MalformedReplies
C21_ClarificationPlan ==
  /\ Len(plan) = 1
  /\ plan[1].agent_type = "synthesis"
  /\ plan[1].description = "Request clarification"
  /\ plan[1].dependencies = {}

\* C21: whenever the intent agent's reply is a failure, is not JSON, is JSON
\* of another shape or names an intent outside the enumeration, the detected
\* intent is UNCLEAR, the plan is the single-step clarification plan once the
\* planner has run, and the finished call has run synthesis and holds an
\* envelope
C21_MalformedIntentReplyMeansUnclear ==
  C21_IntentReplyMalformed =>
    /\ state.detected_intent = Some("unclear")
    /\ (pc \in {"executor", "synthesis", "END"} => C21_ClarificationPlan)
    /\ (pc = "idle" => envelope # None)

\* ---------------------------------------------------------------------------
\* Plan generation on a reply that cannot be used

\* the planner asked the completion service and could not use the answer: a
\* failed call, text that is not JSON, JSON that is no list of step records
C22_PlannerReplyUnusable ==
  /\ Len(replies) = 2
  /\ replies[2].agent = "planner"
  /\ replies[2].reply \in {"error", "bad_json", "not_list", "empty_object"}
C22_PlannerReplyParsed ==
  /\ Len(replies) = 2
  /\ replies[2].agent = "planner"
  /\ replies[2].reply = "ok"
C22_PassNotStarted == pc = "executor" /\ idx = 1 /\ examined = {}
C22_FallbackPlan ==
  /\ Len(plan) = 1
  /\ plan[1].agent_type = "synthesis"
  /\ plan[1].description = "Provide basic response"
  /\ plan[1].dependencies = {}
  /\ ~plan[1].completed
  /\ plan[1].error = None

\* C22: when the planner's call fails or its reply is not JSON or not a list of
\* step records, the plan handed to the executor is the single-step fallback
\* plan; a step whose agent type text names no AgentType is a data_retrieval
\* step; every parsed step starts not completed and without error
C22_UnusablePlanReplyMeansFallback ==
  /\ C22_PassNotStarted /\ C22_PlannerReplyUnusable => C22_FallbackPlan
  /\ C22_PassNotStarted /\ C22_PlannerReplyParsed =>
       \A i \in 1..Len(plan) : ~plan[i].completed /\ plan[i].error = None
  /\ \A raw \in RawStepKinds :
       upper(raw.agent_type) \notin AgentTypeNames =>
         parse_agent_type(raw.agent_type) = "data_retrieval"

\* ---------------------------------------------------------------------------
\* The frame of passing over a blocked step

\* the scan stands at a step that is not completed and whose dependencies are
\* not met
C23_AtBlockedStep ==
  /\ InLoop
  /\ ~plan[idx].completed
  /\ ~dependencies_met(plan, plan[idx].dependencies)
C23_ListsUntouched ==
  /\ state'.errors = state.errors
  /\ state'.sql_queries = state.sql_queries
  /\ state'.query_results = state.query_results
C23_NoCall ==
  /\ dispatched' = dispatched
  /\ gate_log' = gate_log
  /\ explain_calls' = explain_calls
  /\ execute_calls' = execute_calls

\* C23: the iteration of the executor loop over a step whose dependencies are
\* not met runs no handler, leaves the step as it was (completed false, error
\* none, result unchanged) and appends nothing to errors, sql_queries or
\* query_results; the step stays that way until the pass returns
C23_BlockedStepSkippedSilently ==
  [][/\ C23_AtBlockedStep =>
          /\ idx' = idx + 1
          /\ plan' = plan
          /\ ~plan'[idx].completed /\ plan'[idx].error = None
          /\ plan'[idx].result = plan[idx].result
          /\ C23_ListsUntouched
          /\ C23_NoCall
     /\ pc = "executor" =>
          \A i \in skipped : ~plan[i].completed => plan'[i] = plan[i]]_vars

\* a pass that went over a step whose dependency had failed
C23_Witness ==
  /\ pc = "END"
  /\ \E i \in skipped :
       /\ ~plan[i].completed /\ plan[i].error = None
       /\ \E j \in 1..Len(plan) :
            /\ plan[j].step_id \in plan[i].dependencies
            /\ plan[j].completed /\ plan[j].error \notin {None, Some("")}

\* ---------------------------------------------------------------------------
\* Plans whose step ids are whatever the completion service wrote

\* the step kind of these plans: a retrieval of the valid query
PlanIdsStepKinds ==
  {k \in StepKinds :
     k.agent_type = "data_retrieval" /\ k.result = Some(PyStr(QueryValid))}

\* step_data.get("step_id", ...): the ids the reply gives its steps
PlanIdsStepIds == {1, 2}

\* step_data.get("dependencies", []): no id or one id
PlanIdsDependencies == {{}} \cup {{d} : d \in PlanIdsStepIds}

\* _parse_plan_response takes step_id from the reply: the ids of a plan need
\* not be ascending, nor distinct
PlanIdsShapes(n) ==
  [1..n -> PlanIdsStepKinds \X PlanIdsStepIds \X PlanIdsDependencies]
PlanIdsOf(n, sh) == [i \in 1..n |-> ParsedStep(sh[i][2], sh[i][1], sh[i][3])]

\* the reply to the intent prompt in these runs
PlanIdsIntentReply ==
  [kind |-> "ok", intent |-> "lookup", ambiguities |-> <<>>,
   amb_is_list |-> TRUE, msg |-> ""]

\* the state after _intent_node on that reply
PlanIdsInit ==
  /\ pc = "planner"
  /\ state = node_return(analyze_intent(create_initial_state, PlanIdsIntentReply))
  /\ idx = 1
  /\ dispatched = <<>>
  /\ examined = {}
  /\ skipped = {}
  /\ raised_steps = {}
  /\ gate_log = <<>>
  /\ explain_calls = <<>>
  /\ execute_calls = <<>>
  /\ synth_runs = 0
  /\ synth_llm_calls = 0
  /\ memory = <<>>
  /\ added = <<>>
  /\ envelope = None
  /\ calls = 1
  /\ replies = <<[agent |-> "intent", reply |-> PlanIdsIntentReply]>>

\* _planner_node on a reply with any step ids
PlannerNodeAnyIds ==
  /\ pc = "planner"
  /\ \E n \in 0..MaxSteps : \E sh \in PlanIdsShapes(n) :
       state' = node_return(create_plan(state, PlannerPlan(PlanIdsOf(n, sh))))
  /\ replies' = planner_reply(PlannerPlan(<<>>))
  /\ dispatched' = [i \in 1..Len(state'.execution_plan) |-> 0]
  /\ pc' = NextNode("planner")
  /\ UNCHANGED session
  /\ UNCHANGED <<idx, examined, skipped, raised_steps, gate_log, explain_calls,
                 execute_calls, synth_runs, synth_llm_calls>>

PlanIdsNext ==
  \/ PlannerNodeAnyIds
  \/ SkipStep
  \/ DispatchDataRetrieval
  \/ ExecutorReturn
  \/ SynthesisNode
  \/ ProcessQueryReturn

PlanIdsSpec == PlanIdsInit /\ [][PlanIdsNext]_vars

\* workflow.invoke runs the nodes one after the other and process_query
\* returns: every step that can be taken is taken
PlanIdsFairSpec == PlanIdsSpec /\ WF_vars(PlanIdsNext)

\* ---------------------------------------------------------------------------
\* The order of the handler runs of one pass

\* C24: of two steps dispatched in one pass the one with the smaller step_id
\* has its handler run first, wherever the two stand in the plan: no step
\* dispatched before the step dispatched now has a larger step_id
C24_HandlersRunInStepIdOrder ==
  [][\A j \in 1..Len(plan) :
       (pc = "executor" /\ dispatched'[j] > dispatched[j]) =>
         \A i \in 1..Len(plan) :
           dispatched[i] > 0 => plan[i].step_id =< plan[j].step_id]_vars

\* ---------------------------------------------------------------------------
\* One pass over the plan

\* C25: a step that was not ready when the scan reached it is not dispatched
\* in this invocation and stays not completed, also when the step it waits for
\* is scanned later in the pass and succeeds; after the pass every position
\* has been scanned
C25_SinglePass ==
  /\ \A i \in skipped : dispatched[i] = 0 /\ ~plan[i].completed
  /\ pc \in {"synthesis", "END"} => examined = 1..Len(plan)

\* the first step waits for the second, which ran and succeeded later in the
\* same pass
C25_Witness ==
  /\ pc = "END"
  /\ Len(plan) = 2
  /\ 1 \in skipped
  /\ plan[1].dependencies = {2}
  /\ ~plan[1].completed
  /\ dispatched[2] = 1
  /\ plan[2].completed /\ plan[2].error = None

\* ---------------------------------------------------------------------------
\* The order of the three rules of the gate

\* the prefixes and suffixes of the gate's queries that name the table, and
\* those that do not
C26_TablePrefix == <<"s", "e", "l", "e", "c", "t", " ", "*", " ", "f", "r", "o", "m", " ", "S", "P", "5", "0", "0", "_", "C", "o", "m", "p", "a", "n", "i", "e", "s", " ", "w", "h", "e", "r", "e", " ">>
C26_TableSuffix == <<"d", "_", "a", "t", " ", "F", "R", "O", "M", " ", "s", "p", "5", "0", "0", "_", "c", "o", "m", "p", "a", "n", "i", "e", "s">>
C26_NamesNoTable ==
  {p \o m \o x : p \in GatePrefixes \ {C26_TablePrefix},
                 m \in DenylistedSpellings \cup HarmlessFragments,
                 x \in GateSuffixes \ {C26_TableSuffix}}
C26_NamesTable == GateQueries \ C26_NamesNoTable
C26_DangerousReasons ==
  {"Dangerous operation not allowed: drop", "Dangerous operation not allowed: delete",
   "Dangerous operation not allowed: truncate", "Dangerous operation not allowed: insert",
   "Dangerous operation not allowed: update", "Dangerous operation not allowed: alter"}
C26_TableReason == "Query must reference sp500_companies table"
C26_DryRunOk(q) ==
  \E k \in 1..Len(explain_calls) : explain_calls[k] = [query |-> q, ok |-> TRUE]

\* C26: the gate applies its rules in order and the first failure decides: a
\* query with a denylisted word is rejected with the dangerous-operation
\* reason also when it names no table; a query without such a word that names
\* no table is rejected with the table reason; the dry run is asked only about
\* queries that passed both rules; a query is accepted exactly when it passed
\* both and its dry run succeeded, and the accepted query is executed as it is
C26_RulesInOrderFirstFailureWins ==
  /\ \A k \in 1..Len(gate_log) :
       LET v == gate_log[k]
       IN  /\ v.query \in GateDenylisted =>
                ~v.is_valid /\ v.error \in C26_DangerousReasons
           /\ v.query \in GateHarmless \cap C26_NamesNoTable =>
                ~v.is_valid /\ v.error = C26_TableReason
           /\ v.is_valid <=>
                /\ v.query \in GateHarmless \cap C26_NamesTable
                /\ C26_DryRunOk(v.query)
  /\ \A k \in 1..Len(explain_calls) :
       explain_calls[k].query \in GateHarmless \cap C26_NamesTable
  /\ \A k \in 1..Len(gate_log) :
       gate_log[k].is_valid => execute_calls = <<gate_log[k].query>>
  /\ (\A k \in 1..Len(gate_log) : ~gate_log[k].is_valid) => execute_calls = <<>>

\* the gate has judged a query that holds DELETE and names no table
C26_Witness ==
  /\ explain_calls = <<>>
  /\ \E k \in 1..Len(gate_log) :
       /\ gate_log[k].query \in GateDenylisted \cap C26_NamesNoTable
       /\ gate_log[k].error = "Dangerous operation not allowed: delete"

\* ---------------------------------------------------------------------------
\* An analysis that cannot compute its result

\* the analysis handler has run on the step at idx and could not compute: it
\* raised inside, or it returned the dict that says so
C27_AnalysisCouldNotCompute ==
  /\ HandlerRuns
  /\ plan[idx].agent_type = "analysis"
  /\ \/ state'.errors # state.errors
     \/ /\ state'.execution_plan[idx].result # None
        /\ "error" \in state'.execution_plan[idx].result[1].keys

\* C27: an analysis step that cannot compute its result ends completed with
\* its error set, so that the steps that depend on it are not ready
C27_AnalysisFailureIsStepError ==
  [][C27_AnalysisCouldNotCompute =>
       /\ state'.execution_plan[idx].completed
       /\ Truthy(state'.execution_plan[idx].error)
       /\ ~dependencies_met(state'.execution_plan, {plan[idx].step_id})]_vars

\* ---------------------------------------------------------------------------
\* The response metadata after synthesis

\* C28: after synthesis, on every branch, response_metadata holds the number
\* of queries executed, equal to the length of query_results, the rows
\* processed, and a chart flag that is true exactly when chart_config is set
C28_MetadataOnEveryBranch ==
  (pc = "END" /\ synth_runs = 1) =>
    /\ state.response_metadata # None
    /\ state.response_metadata[1].queries_executed = Len(state.query_results)
    /\ state.response_metadata[1].rows_processed = SumRows(state.query_results)
    /\ state.response_metadata[1].has_visualization <=> state.chart_config # None

\* ---------------------------------------------------------------------------
\* Termination of the pass on plans with cycles and repeated ids

\* the step at position i names the step at position j as a dependency
C29_DependsOn(i, j) == plan[j].step_id \in plan[i].dependencies
RECURSIVE C29_Closure(_, _)
C29_Closure(S, k) ==
  IF k = 0 THEN S
  ELSE C29_Closure(S \cup {j \in 1..Len(plan) : \E i \in S : C29_DependsOn(i, j)},
                   k - 1)
\* the step at position i lies on a dependency cycle
C29_OnCycle(i) ==
  i \in C29_Closure({j \in 1..Len(plan) : C29_DependsOn(i, j)}, Len(plan))

\* C29: for every plan, with cycles, self-dependencies or repeated step ids,
\* each step gets at most one handler call and a step on a dependency cycle
\* none, and once the executor has the plan the call goes on to run synthesis
\* once and to return an envelope
C29_PassTerminates ==
  /\ [](\A i \in 1..Len(dispatched) :
          /\ dispatched[i] <= 1
          /\ C29_OnCycle(i) => dispatched[i] = 0)
  /\ (pc = "executor") ~> (pc = "idle" /\ synth_runs = 1 /\ envelope # None)

\* a returned call whose plan was two steps that wait for each other
C29_Witness ==
  /\ pc = "idle" /\ synth_runs = 1 /\ envelope # None
  /\ Len(plan) = 2
  /\ plan[1].step_id = 1 /\ plan[1].dependencies = {2}
  /\ plan[2].step_id = 2 /\ plan[2].dependencies = {1}
  /\ C29_OnCycle(1) /\ C29_OnCycle(2)
  /\ dispatched = <<0, 0>>

\* ---------------------------------------------------------------------------
\* What changes the conversation memory

C30_Returns == pc = "END" /\ pc' = "idle"
C30_Raises == pc \in {"intent", "planner", "executor", "synthesis"} /\ pc' = "idle"
C30_Exchange ==
  << [role |-> "user", content |-> user_query(calls), metadata |-> None],
     [role |-> "assistant", content |-> state.final_response,
      metadata |-> state.response_metadata] >>
C30_Window(messages) ==
  IF Len(messages) > 10
  THEN SubSeq(messages, Len(messages) - 9, Len(messages))
  ELSE messages

\* C30: a call of process_query whose workflow raises leaves the memory as it
\* was; a call whose workflow returns appends the user query and then the
\* assistant response, and the window is cut after that; the memory changes in
\* no other step but reset_conversation, which leaves it empty; the history a
\* call starts with is the memory at that moment
C30_MemoryChangesOnSuccessOrReset ==
  /\ [][C30_Raises => memory' = memory /\ added' = added]_vars
  /\ [][C30_Returns =>
          /\ added' = added \o C30_Exchange
          /\ memory' = C30_Window(memory \o C30_Exchange)]_vars
  /\ [][(memory' # memory /\ ~C30_Returns) =>
          pc = "idle" /\ pc' = "idle" /\ memory' = <<>> /\ added' = <<>>]_vars
  /\ [][(pc = "idle" /\ pc' # "idle") =>
          state'.conversation_history = memory]_vars

\* the second call raised and the memory still holds just the first exchange
C30_Witness ==
  /\ pc = "idle"
  /\ calls = 2
  /\ envelope # None
  /\ envelope[1].response = "An error occurred: boom"
  /\ Len(memory) = 2
  /\ memory[1].content = user_query(1)
  /\ memory[2].role = "assistant"

====
